---------------------------- MODULE Spec2Model ----------------------------
(***************************************************************************)
(* A model of the three command-line scripts of kling-avatar:              *)
(*   kling_lipsync.py  image2video -> poll -> lip-sync -> poll -> download *)
(*   avatar.py         [TTS] -> upload -> confirm -> fal.ai job -> download*)
(*   clone_voice.py    ElevenLabs voice cloning                            *)
(* One behaviour is one run of one script (or one call of poll with        *)
(* arbitrary arguments); the remote services answer nondeterministically.  *)
(***************************************************************************)
EXTENDS Integers, Sequences, FiniteSets

\* ---------------------------------------------------------------- bounds
\* poll(url, interval, max_attempts) called directly: the arguments tried.
MaxAttempts == 3
MaxInterval == 2
\* Longest answer typed at the "Proceed? [y/N]" prompt.
MaxAnswerLen == 2
\* Most queue updates fal_client.subscribe delivers before it returns.
MaxUpdates == 2
\* Most sample files given to clone_voice.py.
MaxFiles == 2

\* ------------------------------------------------------ program constants
\* poll's defaults, used by both call sites of kling_lipsync.py.
DEFAULT_INTERVAL == 5
DEFAULT_MAX_ATTEMPTS == 120

VARIABLES
    script,         \* which program runs: "poll", "kling", "avatar", "clone"
    args,           \* its command line / call arguments
    env,            \* which credentials are set to a non-empty value
    pc,             \* control position
    exitStatus,     \* the process's exit status 0 / 1, -1 while it runs
    reqs,           \* remote requests issued so far, in order (poll GETs apart)
    failure,        \* a task failed, timed out, or a request errored
    outputWritten,  \* the output video file was written
    \* ---- the frame of poll
    pollCaller, pollMax, pollInterval, attempt,
    \* ---- what poll did and saw (history)
    sleeps, slept, gets,
    nPending, firstTerminal, firstTerminalIdx, getsAfterTerminal, badResp,
    pollOutcome, pollReturn, taskFinal,
    \* ---- avatar.py
    audio_path,     \* "none", "arg" (--audio) or "tmp" (the TTS output)
    tmpAudioExists, \* main's temporary MP3 exists on disk
    uploadTmpExists,\* upload_to_fal's ASCII-named copy exists on disk
    upWhich,        \* the file upload_to_fal is uploading: "image" / "audio"
    estimatePrinted, asked, answer,
    handlerInstalled, request_id, jobInFlight, subscribeReturned,
    nUpdates, jobAudio, sigintInFlight

pollVars == <<pollCaller, pollMax, pollInterval, attempt, sleeps, slept, gets,
              nPending, firstTerminal, firstTerminalIdx,
              getsAfterTerminal, badResp, pollOutcome, pollReturn, taskFinal>>
avatarVars == <<audio_path, tmpAudioExists, uploadTmpExists, upWhich,
                estimatePrinted, asked, answer, handlerInstalled, request_id,
                jobInFlight, subscribeReturned, nUpdates, jobAudio,
                sigintInFlight>>
procVars == <<script, args, env>>
vars == <<script, args, env, pc, exitStatus, reqs, failure, outputWritten,
          pollVars, avatarVars>>

\* ------------------------------------------------------------- strings
\* The characters an answer is made of: whitespace, y, Y and another letter.
Chars == {" ", "y", "Y", "n"}
Answers == UNION {[1..n -> Chars] : n \in 0..MaxAnswerLen}

RECURSIVE LStrip(_)
LStrip(s) == IF s # <<>> /\ Head(s) = " " THEN LStrip(Tail(s)) ELSE s
RECURSIVE RStrip(_)
RStrip(s) ==
    IF s # <<>> /\ s[Len(s)] = " " THEN RStrip(SubSeq(s, 1, Len(s) - 1)) ELSE s
\* str.strip()
Strip(s) == RStrip(LStrip(s))
\* str.lower()
Lower(s) == [i \in 1..Len(s) |-> IF s[i] = "Y" THEN "y" ELSE s[i]]

\* ------------------------------------------------------------- helpers
\* The process has not ended: no exit status yet.
Running == exitStatus = -1

NoArgs == [argc |-> 0, imageHttp |-> FALSE, audioHttp |-> FALSE,
           image |-> "none", audio |-> "none", text |-> FALSE,
           voice |-> FALSE, yes |-> FALSE, nFiles |-> 0, missing |-> {}]
NoEnv == [fal |-> FALSE, eleven |-> FALSE, access |-> FALSE, secret |-> FALSE]

\* sys.exit(status), or an uncaught exception (status 1), with no finally
\* block on the way out.
Exit(status) ==
    /\ exitStatus' = status
    /\ pc' = "exit"

Issue(r) == reqs' = Append(reqs, r)


\* ======================================================== kling_lipsync.py
\* ------------------------------------------------------------------ poll
\* What a status GET can come back with: an HTTP error status (or a transport
\* error), a body without data/task_status, or a task status.
Pending == {"submitted", "processing"}
Terminal == {"succeed", "failed"}
BadResps == {"http_error", "malformed"}
Resps == BadResps \cup Pending \cup Terminal

\* A variant of HasBudget that is off by one: the loop runs once more.
HasBudgetInclusive(a, max) == a <= max

\* `for attempt in range(max_attempts)`: another iteration is due.
HasBudget(a, max) == a < max

\* A variant of Classify without the "failed" test: a failed task is polled
\* on like a pending one.
ClassifyFailedContinues(resp) ==
    CASE resp \in BadResps -> "raise_request"
      [] resp = "succeed"  -> "return"
      [] OTHER             -> "continue"

\* A variant of Classify that swallows a failing request and polls again.
ClassifyRetriesErrors(resp) ==
    CASE resp = "succeed"  -> "return"
      [] resp = "failed"   -> "raise_failed"
      [] OTHER             -> "continue"

\* A variant of Classify that returns the data of any terminal status.
ClassifyFailedReturns(resp) ==
    CASE resp \in BadResps -> "raise_request"
      [] resp \in Terminal -> "return"
      [] OTHER             -> "continue"

\* What poll does with one response: raise_for_status and the two lookups
\* raise, "succeed" returns, "failed" raises, anything else loops.
Classify(resp) ==
    CASE resp \in BadResps -> "raise_request"
      [] resp = "succeed"  -> "return"
      [] resp = "failed"   -> "raise_failed"
      [] OTHER             -> "continue"

\* The frame and the history of a fresh call of poll.
CallPoll(caller, interval, max) ==
    /\ pollCaller' = caller
    /\ pollInterval' = interval
    /\ pollMax' = max
    /\ attempt' = 0
    /\ sleeps' = 0
    /\ slept' = 0
    /\ gets' = 0
    /\ nPending' = 0
    /\ firstTerminal' = "none"
    /\ firstTerminalIdx' = 0
    /\ getsAfterTerminal' = 0
    /\ badResp' = FALSE
    /\ pollOutcome' = "none"
    /\ pollReturn' = 0
    /\ pc' = "p_loop"
    /\ UNCHANGED taskFinal

\* Where poll's caller goes on with the returned data.
AfterPoll(caller) ==
    CASE caller = "i2v" -> "k_i2v_result"
      [] caller = "lip" -> "k_lip_result"
      [] OTHER          -> "exit"

\* time.sleep(interval) at the top of an iteration.
poll_sleep ==
    /\ Running /\ pc = "p_loop"
    /\ HasBudget(attempt, pollMax)
    /\ sleeps' = sleeps + 1
    /\ slept' = slept + pollInterval
    /\ pc' = "p_get"
    /\ UNCHANGED <<procVars, exitStatus, reqs, failure, outputWritten,
                   pollCaller, pollMax, pollInterval, attempt, gets,
                   nPending, firstTerminal, firstTerminalIdx, getsAfterTerminal,
                   badResp, pollOutcome, pollReturn, taskFinal, avatarVars>>

\* The loop ran out: raise RuntimeError("Timed out waiting for task").
poll_timeout ==
    /\ Running /\ pc = "p_loop"
    /\ ~HasBudget(attempt, pollMax)
    /\ pollOutcome' = "timed_out"
    /\ failure' = TRUE
    /\ Exit(1)
    /\ UNCHANGED <<procVars, reqs, outputWritten,
                   pollCaller, pollMax, pollInterval, attempt, sleeps, slept,
                   gets, nPending, firstTerminal, firstTerminalIdx,
                   getsAfterTerminal, badResp, pollReturn, taskFinal,
                   avatarVars>>

\* requests.get, raise_for_status, the status lookup and the two tests.
poll_get ==
    /\ Running /\ pc = "p_get"
    /\ \E resp \in Resps :
        /\ gets' = gets + 1
        /\ badResp' = (badResp \/ resp \in BadResps)
        /\ nPending' = IF resp \in Pending THEN nPending + 1 ELSE nPending
        /\ firstTerminal' =
              IF firstTerminal = "none" /\ resp \in Terminal
              THEN resp ELSE firstTerminal
        /\ firstTerminalIdx' =
              IF firstTerminal = "none" /\ resp \in Terminal
              THEN gets + 1 ELSE firstTerminalIdx
        /\ getsAfterTerminal' =
              IF firstTerminal # "none"
              THEN getsAfterTerminal + 1 ELSE getsAfterTerminal
        /\ failure' = (failure \/ resp \in BadResps \/ resp = "failed")
        /\ CASE Classify(resp) = "continue" ->
                  /\ attempt' = attempt + 1
                  /\ pc' = "p_loop"
                  /\ UNCHANGED <<exitStatus, pollOutcome, pollReturn, taskFinal>>
             [] Classify(resp) = "return" ->
                  /\ pollOutcome' = "returned"
                  /\ pollReturn' = gets + 1
                  /\ taskFinal' = [taskFinal EXCEPT ![pollCaller] = resp]
                  /\ pc' = AfterPoll(pollCaller)
                  /\ exitStatus' = IF pollCaller = "harness" THEN 0 ELSE exitStatus
                  /\ UNCHANGED attempt
             [] Classify(resp) = "raise_failed" ->
                  /\ pollOutcome' = "task_failed"
                  /\ Exit(1)
                  /\ UNCHANGED <<attempt, pollReturn, taskFinal>>
             [] OTHER ->
                  /\ pollOutcome' = "request_error"
                  /\ Exit(1)
                  /\ UNCHANGED <<attempt, pollReturn, taskFinal>>
    /\ UNCHANGED <<procVars, reqs, outputWritten, pollCaller, pollMax,
                   pollInterval, sleeps, slept, avatarVars>>

\* ------------------------------------------------------------ the script
\* An upload to tmpfiles.org: the POST succeeds and the script goes on at
\* `next`, or it errors, or open() raised before it; an exception ends the
\* process.
KlingRequest(r, next) ==
    \/ /\ Issue(r)
       /\ pc' = next
       /\ UNCHANGED <<exitStatus, failure>>
    \/ /\ Issue(r)
       /\ failure' = TRUE
       /\ Exit(1)
    \/ /\ UNCHANGED reqs
       /\ failure' = TRUE
       /\ Exit(1)

\* __main__: the usage and the credential checks.
kling_main ==
    /\ Running /\ pc = "k_main"
    /\ IF args.argc < 3 \/ ~env.access \/ ~env.secret
       THEN Exit(1)
       ELSE pc' = "k_up_image" /\ UNCHANGED exitStatus
    /\ UNCHANGED <<procVars, reqs, failure, outputWritten, pollVars, avatarVars>>

\* image_to_video: a local image is uploaded to tmpfiles.org first.
image_to_video_upload ==
    /\ Running /\ pc = "k_up_image"
    /\ IF args.imageHttp
       THEN pc' = "k_i2v_post" /\ UNCHANGED <<reqs, exitStatus, failure>>
       ELSE KlingRequest("upload_image", "k_i2v_post")
    /\ UNCHANGED <<procVars, outputWritten, pollVars, avatarVars>>

\* image_to_video: POST /v1/videos/image2video, then poll the task.
image_to_video_post ==
    /\ Running /\ pc = "k_i2v_post"
    /\ Issue("i2v_post")
    /\ \/ /\ CallPoll("i2v", DEFAULT_INTERVAL, DEFAULT_MAX_ATTEMPTS)
          /\ UNCHANGED <<exitStatus, failure>>
       \/ /\ failure' = TRUE
          /\ Exit(1)
          /\ UNCHANGED pollVars
    /\ UNCHANGED <<procVars, outputWritten, avatarVars>>

\* A step that reads the result of a task out of the polled data: the
\* lookups succeed, or raise and end the process.
KlingResult(next) ==
    /\ \/ /\ pc' = next
          /\ UNCHANGED <<exitStatus, failure>>
       \/ /\ failure' = TRUE
          /\ Exit(1)
    /\ UNCHANGED <<procVars, reqs, outputWritten, pollVars, avatarVars>>

\* image_to_video: the video's url and id out of the task result.
image_to_video_result ==
    /\ Running /\ pc = "k_i2v_result"
    /\ KlingResult("k_up_audio")

\* lip_sync: a local audio file is uploaded to tmpfiles.org first.
lip_sync_upload ==
    /\ Running /\ pc = "k_up_audio"
    /\ IF args.audioHttp
       THEN pc' = "k_lip_post" /\ UNCHANGED <<reqs, exitStatus, failure>>
       ELSE KlingRequest("upload_audio", "k_lip_post")
    /\ UNCHANGED <<procVars, outputWritten, pollVars, avatarVars>>

\* lip_sync: POST /v1/videos/lip-sync, then poll the task.
lip_sync_post ==
    /\ Running /\ pc = "k_lip_post"
    /\ Issue("lip_post")
    /\ \/ /\ CallPoll("lip", DEFAULT_INTERVAL, DEFAULT_MAX_ATTEMPTS)
          /\ UNCHANGED <<exitStatus, failure>>
       \/ /\ failure' = TRUE
          /\ Exit(1)
          /\ UNCHANGED pollVars
    /\ UNCHANGED <<procVars, outputWritten, avatarVars>>

\* lip_sync: the output video's url out of the task result.
lip_sync_result ==
    /\ Running /\ pc = "k_lip_result"
    /\ KlingResult("k_download")

\* download: GET the video, raise_for_status, write the output file.
download ==
    /\ Running /\ pc = "k_download"
    /\ Issue("download")
    /\ \/ /\ outputWritten' = TRUE
          /\ pc' = "k_done"
          /\ UNCHANGED <<exitStatus, failure>>
       \/ /\ failure' = TRUE
          /\ Exit(1)
          /\ UNCHANGED outputWritten
    /\ UNCHANGED <<procVars, pollVars, avatarVars>>

\* The last print; the script ends.
kling_done ==
    /\ Running /\ pc = "k_done"
    /\ Exit(0)
    /\ UNCHANGED <<procVars, reqs, failure, outputWritten, pollVars, avatarVars>>

\* ========================================================== clone_voice.py
\* clone_voice: the ELEVENLABS_KEY check.
clone_voice_key ==
    /\ Running /\ pc = "c_key"
    /\ IF ~env.eleven
       THEN Exit(1)
       ELSE pc' = "c_files" /\ UNCHANGED exitStatus
    /\ UNCHANGED <<procVars, reqs, failure, outputWritten, pollVars, avatarVars>>

\* clone_voice: every sample file must exist.
clone_voice_files ==
    /\ Running /\ pc = "c_files"
    /\ IF args.missing # {}
       THEN Exit(1)
       ELSE pc' = "c_create" /\ UNCHANGED exitStatus
    /\ UNCHANGED <<procVars, reqs, failure, outputWritten, pollVars, avatarVars>>

\* clone_voice: client.voices.ivc.create with the opened files.
clone_voice_create ==
    /\ Running /\ pc = "c_create"
    /\ Issue("ivc_create")
    /\ \/ /\ pc' = "c_print"
          /\ UNCHANGED <<exitStatus, failure>>
       \/ /\ failure' = TRUE
          /\ Exit(1)
    /\ UNCHANGED <<procVars, outputWritten, pollVars, avatarVars>>

\* clone_voice: print the new voice id; the script ends.
clone_voice_print ==
    /\ Running /\ pc = "c_print"
    /\ Exit(0)
    /\ UNCHANGED <<procVars, reqs, failure, outputWritten, pollVars, avatarVars>>

\* =============================================================== avatar.py
\* Leaving main through its finally block: the temporary MP3 is unlinked,
\* then the process ends (sys.exit, or an uncaught exception: status 1).
LeaveMain(status) ==
    /\ tmpAudioExists' = FALSE
    /\ Exit(status)

\* A variant of Accepts that only refuses an explicit "n".
AcceptsUnlessNo(ans) == Lower(Strip(ans)) # <<"n">>

\* A variant of Accepts that takes a bare Enter for yes.
AcceptsEmpty(ans) == Strip(ans) = <<>> \/ Lower(Strip(ans)) = <<"y">>

\* `answer != "y"` after strip().lower(): the answer lets the job go ahead.
Accepts(ans) == Lower(Strip(ans)) = <<"y">>

\* The kind of file upload_to_fal is given: "http", "ascii" or "nonascii".
\* The TTS output is a tempfile name, which is ASCII.
AudioKind == IF audio_path = "tmp" THEN "ascii" ELSE args.audio
UploadKind == IF upWhich = "image" THEN args.image ELSE AudioKind

\* main: the argument checks, then TTS for --text.
main_args ==
    /\ Running /\ pc = "a_main"
    /\ IF (args.audio = "none" /\ ~args.text) \/ (args.text /\ ~args.voice)
       THEN Exit(1) /\ UNCHANGED audio_path
       ELSE /\ audio_path' = IF args.audio = "none" THEN "none" ELSE "arg"
            /\ pc' = IF args.text THEN "a_mktemp" ELSE "a_gen"
            /\ UNCHANGED exitStatus
    /\ UNCHANGED <<procVars, reqs, failure, outputWritten, pollVars,
                   tmpAudioExists, uploadTmpExists, upWhich, estimatePrinted,
                   asked, answer, handlerInstalled, request_id, jobInFlight,
                   subscribeReturned, nUpdates, jobAudio, sigintInFlight>>

\* main: tempfile.NamedTemporaryFile(suffix=".mp3", delete=False).
main_tmp_audio ==
    /\ Running /\ pc = "a_mktemp"
    /\ tmpAudioExists' = TRUE
    /\ pc' = "a_tts_key"
    /\ UNCHANGED <<procVars, exitStatus, reqs, failure, outputWritten, pollVars,
                   audio_path, uploadTmpExists, upWhich, estimatePrinted,
                   asked, answer, handlerInstalled, request_id, jobInFlight,
                   subscribeReturned, nUpdates, jobAudio, sigintInFlight>>

\* text_to_speech: the ELEVENLABS_KEY check. It runs before main's try.
text_to_speech_key ==
    /\ Running /\ pc = "a_tts_key"
    /\ IF ~env.eleven
       THEN Exit(1)
       ELSE pc' = "a_tts" /\ UNCHANGED exitStatus
    /\ UNCHANGED <<procVars, reqs, failure, outputWritten, pollVars, avatarVars>>

\* text_to_speech: the convert request, streamed into the temporary MP3.
\* An error is an uncaught exception, raised before main's try.
text_to_speech_convert ==
    /\ Running /\ pc = "a_tts"
    /\ Issue("tts")
    /\ \/ /\ audio_path' = "tmp"
          /\ pc' = "a_gen"
          /\ UNCHANGED <<exitStatus, failure>>
       \/ /\ failure' = TRUE
          /\ Exit(1)
          /\ UNCHANGED audio_path
    /\ UNCHANGED <<procVars, outputWritten, pollVars,
                   tmpAudioExists, uploadTmpExists, upWhich, estimatePrinted,
                   asked, answer, handlerInstalled, request_id, jobInFlight,
                   subscribeReturned, nUpdates, jobAudio, sigintInFlight>>

\* generate_avatar: the FAL_KEY check.
generate_avatar_key ==
    /\ Running /\ pc = "a_gen"
    /\ IF ~env.fal
       THEN LeaveMain(1) /\ UNCHANGED upWhich
       ELSE /\ upWhich' = "image"
            /\ pc' = "a_url"
            /\ UNCHANGED <<exitStatus, tmpAudioExists>>
    /\ UNCHANGED <<procVars, reqs, failure, outputWritten, pollVars,
                   audio_path, uploadTmpExists, estimatePrinted,
                   asked, answer, handlerInstalled, request_id, jobInFlight,
                   subscribeReturned, nUpdates, jobAudio, sigintInFlight>>

\* Where generate_avatar goes on once image_url / audio_url is known.
AfterUrl == IF upWhich = "image" THEN "a_url" ELSE "a_confirm"

\* generate_avatar: image_url, then audio_url: a URL is taken as is, a local
\* path goes through upload_to_fal.
generate_avatar_urls ==
    /\ Running /\ pc = "a_url"
    /\ IF UploadKind = "http"
       THEN /\ pc' = AfterUrl
            /\ upWhich' = "audio"
       ELSE /\ pc' = "u_prepare"
            /\ UNCHANGED upWhich
    /\ UNCHANGED <<procVars, exitStatus, reqs, failure, outputWritten, pollVars,
                   audio_path, tmpAudioExists, uploadTmpExists, estimatePrinted,
                   asked, answer, handlerInstalled, request_id, jobInFlight,
                   subscribeReturned, nUpdates, jobAudio, sigintInFlight>>

\* upload_to_fal: a file whose name is not ASCII gets a temporary file to be
\* copied to.
upload_to_fal_tmp ==
    /\ Running /\ pc = "u_prepare"
    /\ IF UploadKind = "nonascii"
       THEN uploadTmpExists' = TRUE /\ pc' = "u_copy"
       ELSE UNCHANGED uploadTmpExists /\ pc' = "u_upload"
    /\ UNCHANGED <<procVars, exitStatus, reqs, failure, outputWritten, pollVars,
                   audio_path, tmpAudioExists, upWhich, estimatePrinted,
                   asked, answer, handlerInstalled, request_id, jobInFlight,
                   subscribeReturned, nUpdates, jobAudio, sigintInFlight>>

\* upload_to_fal: shutil.copy2 into the temporary file, before the try. When
\* the copy fails (no such file, unreadable) the exception leaves through
\* main's finally only.
upload_to_fal_copy ==
    /\ Running /\ pc = "u_copy"
    /\ \/ /\ pc' = "u_upload"
          /\ UNCHANGED <<exitStatus, failure, tmpAudioExists>>
       \/ /\ failure' = TRUE
          /\ LeaveMain(1)
    /\ UNCHANGED <<procVars, reqs, outputWritten, pollVars,
                   audio_path, uploadTmpExists, upWhich, estimatePrinted,
                   asked, answer, handlerInstalled, request_id, jobInFlight,
                   subscribeReturned, nUpdates, jobAudio, sigintInFlight>>

\* upload_to_fal: fal_client.upload_file in a try whose finally unlinks the
\* temporary copy.
upload_to_fal_upload ==
    /\ Running /\ pc = "u_upload"
    /\ Issue(IF upWhich = "image" THEN "upload_image" ELSE "upload_audio")
    /\ uploadTmpExists' = FALSE
    /\ \/ /\ pc' = AfterUrl
          /\ upWhich' = "audio"
          /\ UNCHANGED <<exitStatus, failure, tmpAudioExists>>
       \/ /\ failure' = TRUE
          /\ LeaveMain(1)
          /\ UNCHANGED upWhich
    /\ UNCHANGED <<procVars, outputWritten, pollVars,
                   audio_path, estimatePrinted,
                   asked, answer, handlerInstalled, request_id, jobInFlight,
                   subscribeReturned, nUpdates, jobAudio, sigintInFlight>>

\* confirm_cost: the duration (which may raise: no ffprobe, no number), the
\* printed estimate, and the --yes shortcut.
confirm_cost ==
    /\ Running /\ pc = "a_confirm"
    /\ \/ /\ estimatePrinted' = TRUE
          /\ pc' = IF args.yes THEN "a_install" ELSE "a_input"
          /\ UNCHANGED <<exitStatus, failure, tmpAudioExists>>
       \/ /\ failure' = TRUE
          /\ LeaveMain(1)
          /\ UNCHANGED estimatePrinted
    /\ UNCHANGED <<procVars, reqs, outputWritten, pollVars,
                   audio_path, uploadTmpExists, upWhich,
                   asked, answer, handlerInstalled, request_id, jobInFlight,
                   subscribeReturned, nUpdates, jobAudio, sigintInFlight>>

\* confirm_cost: input("Proceed? [y/N] "), and sys.exit(0) unless accepted.
confirm_cost_input ==
    /\ Running /\ pc = "a_input"
    /\ \E ans \in Answers :
        /\ asked' = TRUE
        /\ answer' = ans
        /\ IF Accepts(ans)
           THEN pc' = "a_install" /\ UNCHANGED <<exitStatus, tmpAudioExists>>
           ELSE LeaveMain(0)
    /\ UNCHANGED <<procVars, reqs, failure, outputWritten, pollVars,
                   audio_path, uploadTmpExists, upWhich, estimatePrinted,
                   handlerInstalled, request_id, jobInFlight,
                   subscribeReturned, nUpdates, jobAudio, sigintInFlight>>

\* generate_avatar: request_id = None; signal.signal(SIGINT, handle_sigint).
generate_avatar_signal ==
    /\ Running /\ pc = "a_install"
    /\ request_id' = "none"
    /\ handlerInstalled' = TRUE
    /\ pc' = "a_subscribe"
    /\ UNCHANGED <<procVars, exitStatus, reqs, failure, outputWritten, pollVars,
                   audio_path, tmpAudioExists, uploadTmpExists, upWhich,
                   estimatePrinted, asked, answer, jobInFlight,
                   subscribeReturned, nUpdates, jobAudio, sigintInFlight>>

\* fal_client.subscribe: the job is submitted with image_url and audio_url.
subscribe_submit ==
    /\ Running /\ pc = "a_subscribe"
    /\ Issue("fal_submit")
    /\ \/ /\ jobInFlight' = TRUE
          /\ jobAudio' = audio_path
          /\ pc' = "a_wait"
          /\ UNCHANGED <<exitStatus, failure, tmpAudioExists>>
       \/ /\ failure' = TRUE
          /\ LeaveMain(1)
          /\ UNCHANGED <<jobInFlight, jobAudio>>
    /\ UNCHANGED <<procVars, outputWritten, pollVars,
                   audio_path, uploadTmpExists, upWhich, estimatePrinted,
                   asked, answer, handlerInstalled, request_id,
                   subscribeReturned, nUpdates, sigintInFlight>>

\* on_queue_update: an update that has a request_id attribute sets the
\* closure's request_id; others leave it.
on_queue_update ==
    /\ Running /\ pc = "a_wait"
    /\ nUpdates < MaxUpdates
    /\ nUpdates' = nUpdates + 1
    /\ \E hasId \in BOOLEAN :
          request_id' = IF hasId THEN "job" ELSE request_id
    /\ UNCHANGED <<procVars, pc, exitStatus, reqs, failure, outputWritten,
                   pollVars, audio_path, tmpAudioExists, uploadTmpExists,
                   upWhich, estimatePrinted, asked, answer, handlerInstalled,
                   jobInFlight, subscribeReturned, jobAudio, sigintInFlight>>

\* fal_client.subscribe returns the result, or raises (the job failed, a
\* request errored).
subscribe_return ==
    /\ Running /\ pc = "a_wait"
    /\ jobInFlight' = FALSE
    /\ \/ /\ subscribeReturned' = TRUE
          /\ pc' = "a_restore"
          /\ UNCHANGED <<exitStatus, failure, tmpAudioExists>>
       \/ /\ failure' = TRUE
          /\ LeaveMain(1)
          /\ UNCHANGED subscribeReturned
    /\ UNCHANGED <<procVars, reqs, outputWritten, pollVars,
                   audio_path, uploadTmpExists, upWhich, estimatePrinted,
                   asked, answer, handlerInstalled, request_id,
                   nUpdates, jobAudio, sigintInFlight>>

\* generate_avatar: signal.signal(SIGINT, SIG_DFL).
generate_avatar_restore ==
    /\ Running /\ pc = "a_restore"
    /\ handlerInstalled' = FALSE
    /\ pc' = "a_download"
    /\ UNCHANGED <<procVars, exitStatus, reqs, failure, outputWritten, pollVars,
                   audio_path, tmpAudioExists, uploadTmpExists, upWhich,
                   estimatePrinted, asked, answer, request_id, jobInFlight,
                   subscribeReturned, nUpdates, jobAudio, sigintInFlight>>

\* handle_sigint, run when SIGINT arrives while it is installed: cancel the
\* job if request_id is set (a failing cancel is caught), then sys.exit(1),
\* which leaves through main's finally.
handle_sigint ==
    /\ Running /\ handlerInstalled
    /\ reqs' = IF request_id # "none" THEN Append(reqs, "fal_cancel") ELSE reqs
    /\ sigintInFlight' = jobInFlight
    /\ LeaveMain(1)
    /\ UNCHANGED <<procVars, failure, outputWritten, pollVars,
                   audio_path, uploadTmpExists, upWhich, estimatePrinted,
                   asked, answer, handlerInstalled, request_id, jobInFlight,
                   subscribeReturned, nUpdates, jobAudio>>

\* generate_avatar: the video url out of the result (which may raise), the
\* GET, raise_for_status, and the output file.
generate_avatar_download ==
    /\ Running /\ pc = "a_download"
    /\ \/ /\ Issue("download")
          /\ outputWritten' = TRUE
          /\ pc' = "a_finish"
          /\ UNCHANGED <<exitStatus, failure, tmpAudioExists>>
       \/ /\ Issue("download")
          /\ failure' = TRUE
          /\ LeaveMain(1)
          /\ UNCHANGED outputWritten
       \/ /\ failure' = TRUE
          /\ LeaveMain(1)
          /\ UNCHANGED <<reqs, outputWritten>>
    /\ UNCHANGED <<procVars, pollVars,
                   audio_path, uploadTmpExists, upWhich, estimatePrinted,
                   asked, answer, handlerInstalled, request_id, jobInFlight,
                   subscribeReturned, nUpdates, jobAudio, sigintInFlight>>

\* main: the finally block and the last print; the script ends.
main_finally ==
    /\ Running /\ pc = "a_finish"
    /\ LeaveMain(0)
    /\ UNCHANGED <<procVars, reqs, failure, outputWritten, pollVars,
                   audio_path, uploadTmpExists, upWhich, estimatePrinted,
                   asked, answer, handlerInstalled, request_id, jobInFlight,
                   subscribeReturned, nUpdates, jobAudio, sigintInFlight>>

\* ================================================================ the runs
IdlePoll ==
    /\ pollCaller = "none" /\ pollMax = 0 /\ pollInterval = 0

InitCommon ==
    /\ exitStatus = -1
    /\ reqs = <<>>
    /\ failure = FALSE
    /\ outputWritten = FALSE
    /\ attempt = 0 /\ sleeps = 0 /\ slept = 0 /\ gets = 0
    /\ nPending = 0 /\ firstTerminal = "none" /\ firstTerminalIdx = 0
    /\ getsAfterTerminal = 0 /\ badResp = FALSE
    /\ pollOutcome = "none" /\ pollReturn = 0
    /\ taskFinal = [c \in {"harness", "i2v", "lip"} |-> "none"]
    /\ audio_path = "none"
    /\ tmpAudioExists = FALSE /\ uploadTmpExists = FALSE
    /\ upWhich = "image"
    /\ estimatePrinted = FALSE /\ asked = FALSE /\ answer = <<>>
    /\ handlerInstalled = FALSE /\ request_id = "none"
    /\ jobInFlight = FALSE /\ subscribeReturned = FALSE
    /\ nUpdates = 0 /\ jobAudio = "none" /\ sigintInFlight = FALSE

\* poll(url, interval, max_attempts), called with arguments of its types.
InitPoll ==
    /\ script = "poll"
    /\ args = NoArgs /\ env = NoEnv
    /\ pollCaller = "harness"
    /\ pollMax \in 0..MaxAttempts
    /\ pollInterval \in 0..MaxInterval
    /\ pc = "p_loop"

\* python3 kling_lipsync.py [image [audio [output]]]
InitKling ==
    /\ script = "kling"
    /\ \E n \in 1..4, ih \in BOOLEAN, ah \in BOOLEAN :
          args = [NoArgs EXCEPT !.argc = n, !.imageHttp = ih, !.audioHttp = ah]
    /\ \E a \in BOOLEAN, k \in BOOLEAN :
          env = [NoEnv EXCEPT !.access = a, !.secret = k]
    /\ IdlePoll
    /\ pc = "k_main"

\* python3 avatar.py --image I [--audio A] [--text T] [--voice-id V] [--yes]
\* (voice: --voice-id or ELEVENLABS_VOICE_ID gives a non-empty voice id).
InitAvatar ==
    /\ script = "avatar"
    /\ \E i \in {"http", "ascii", "nonascii"},
          a \in {"none", "http", "ascii", "nonascii"},
          t \in BOOLEAN, v \in BOOLEAN, y \in BOOLEAN :
          args = [NoArgs EXCEPT !.image = i, !.audio = a, !.text = t,
                                !.voice = v, !.yes = y]
    /\ \E f \in BOOLEAN, e \in BOOLEAN :
          env = [NoEnv EXCEPT !.fal = f, !.eleven = e]
    /\ IdlePoll
    /\ pc = "a_main"

\* python3 clone_voice.py --name N --files F1 [F2 ...]
InitClone ==
    /\ script = "clone"
    /\ \E n \in 1..MaxFiles :
        \E m \in SUBSET (1..n) :
          args = [NoArgs EXCEPT !.nFiles = n, !.missing = m]
    /\ \E e \in BOOLEAN : env = [NoEnv EXCEPT !.eleven = e]
    /\ IdlePoll
    /\ pc = "c_key"

Init ==
    /\ InitCommon
    /\ \/ InitPoll
       \/ InitKling
       \/ InitAvatar
       \/ InitClone

Next ==
    \/ poll_sleep
    \/ poll_timeout
    \/ poll_get
    \/ kling_main
    \/ image_to_video_upload
    \/ image_to_video_post
    \/ image_to_video_result
    \/ lip_sync_upload
    \/ lip_sync_post
    \/ lip_sync_result
    \/ download
    \/ kling_done
    \/ clone_voice_key
    \/ clone_voice_files
    \/ clone_voice_create
    \/ clone_voice_print
    \/ main_args
    \/ main_tmp_audio
    \/ text_to_speech_key
    \/ text_to_speech_convert
    \/ generate_avatar_key
    \/ generate_avatar_urls
    \/ upload_to_fal_tmp
    \/ upload_to_fal_copy
    \/ upload_to_fal_upload
    \/ confirm_cost
    \/ confirm_cost_input
    \/ generate_avatar_signal
    \/ subscribe_submit
    \/ on_queue_update
    \/ subscribe_return
    \/ generate_avatar_restore
    \/ handle_sigint
    \/ generate_avatar_download
    \/ main_finally

Spec == Init /\ [][Next]_vars

\* Every step of a script is taken eventually: the interpreter runs, every
\* request has a timeout, and the user answers the prompt.
FairSpec == Spec /\ WF_vars(Next)

\* ============================================================== properties
Issued(r) == \E i \in DOMAIN reqs : reqs[i] = r
Last(q) == q[Len(q)]
PollEnded == pollOutcome # "none"
InPoll == Running /\ pc \in {"p_loop", "p_get"}

\* ---------------------------------------------------------------------- C1
PollCounts ==
    /\ gets <= pollMax
    /\ sleeps = (IF pc = "p_get" THEN gets + 1 ELSE gets)
    /\ slept = sleeps * pollInterval

\* C1: poll is bounded. It issues at most max_attempts GETs, every GET is
\* preceded by exactly one sleep of one interval (the first one too), and
\* a call of poll always ends, by returning or by raising.
C1_PollBounded ==
    /\ []PollCounts
    /\ [][gets' > gets =>
            /\ gets' = gets + 1
            /\ sleeps = gets + 1
            /\ sleeps' = sleeps]_vars
    /\ (InPoll ~> ~InPoll)

\* poll was called with a budget of two or more and a positive interval, and
\* used the budget up.
C1_Witness ==
    /\ script = "poll"
    /\ pollOutcome = "timed_out"
    /\ pollMax >= 2 /\ pollInterval >= 1
    /\ gets = pollMax
    /\ slept = pollMax * pollInterval

\* ---------------------------------------------------------------------- C2
\* C2: when every GET of a call of poll got a well-formed response, the
\* first terminal status decides: poll returned the data of the first
\* "succeed" response, or raised "Task failed" at the first "failed" one, or
\* raised "Timed out" exactly when all max_attempts responses were
\* non-terminal; and no GET followed a terminal status.
C2_PollOutcomes ==
    ~badResp =>
        /\ pollOutcome \in {"none", "returned", "task_failed", "timed_out"}
        /\ (pollOutcome = "returned") = (firstTerminal = "succeed")
        /\ pollOutcome = "returned" => pollReturn = firstTerminalIdx
        /\ (pollOutcome = "task_failed") = (firstTerminal = "failed")
        /\ PollEnded =>
              ((pollOutcome = "timed_out")
                 = (nPending = pollMax /\ firstTerminal = "none"))
        /\ getsAfterTerminal = 0

\* poll returned the data of a "succeed" response that came after pending
\* ones.
C2_Witness ==
    /\ script = "poll"
    /\ ~badResp
    /\ pollOutcome = "returned"
    /\ nPending >= 1
    /\ pollReturn = nPending + 1

\* ---------------------------------------------------------------------- C3
\* C3 as stated: poll stops only on a terminal status or with the budget
\* used up; a failing request before that does not end it.
C3_RetriesThroughErrors ==
    PollEnded => (firstTerminal # "none" \/ gets >= pollMax)

\* C3, amended: poll goes on until the status is terminal, the budget is used
\* up, or a poll request fails. A failing request is not retried: it ends
\* poll at once with the request's exception.
C3_StopsOnErrorToo ==
    /\ PollEnded =>
          \/ firstTerminal # "none"
          \/ pollOutcome = "timed_out" /\ gets = pollMax
          \/ pollOutcome = "request_error"
    /\ badResp = (pollOutcome = "request_error")
    /\ (pollCaller # "none" /\ ~PollEnded) => InPoll

\* A poll request failed after a pending status, with budget left, and that
\* ended poll.
C3_Witness ==
    /\ script = "poll"
    /\ pollOutcome = "request_error"
    /\ nPending >= 1
    /\ gets < pollMax
    /\ ~Running

\* ---------------------------------------------------------------------- C4
\* The answer is one y or Y with nothing but whitespace around it.
IsYes(ans) ==
    \E i \in 1..Len(ans) :
        /\ ans[i] \in {"y", "Y"}
        /\ \A j \in 1..Len(ans) : j # i => ans[j] = " "

\* The estimate was printed and the user let the job go ahead.
Confirmed == estimatePrinted /\ (args.yes \/ (asked /\ IsYes(answer)))

\* C4: in avatar.py the fal.ai job is submitted only after confirm_cost
\* printed the estimate and either --yes was given or the answer, stripped
\* and lower-cased, is "y"; on any other answer the process has exited with
\* status 0, no job was submitted and no output file was written.
C4_ConfirmGatesJob ==
    /\ Issued("fal_submit") => Confirmed
    /\ asked => estimatePrinted /\ ~args.yes
    /\ (asked /\ ~IsYes(answer)) =>
          /\ exitStatus = 0
          /\ ~Issued("fal_submit")
          /\ ~outputWritten

\* The user answered "Y " at the prompt and the job was submitted.
C4_Witness ==
    /\ asked
    /\ answer = <<"Y", " ">>
    /\ Issued("fal_submit")

\* ---------------------------------------------------------------------- C5
Expensive == {"tts", "i2v_post", "lip_post", "fal_submit"}

\* C5 as stated: no expensive generation request of any script (TTS,
\* image2video, lip-sync, the fal.ai job) is issued before the user
\* confirmed or skipped the confirmation.
C5_AllExpensiveCallsGated ==
    (\E i \in DOMAIN reqs : reqs[i] \in Expensive) => Confirmed

\* C5, amended: confirmation gates the fal.ai job of avatar.py only. The
\* TTS request for --text is issued before confirm_cost runs (when the last
\* request is the TTS one nothing was estimated or asked yet, and whenever
\* an estimate is shown for --text the TTS request was already made), and
\* kling_lipsync.py never estimates or asks.
C5_OnlyFalJobGated ==
    /\ Issued("fal_submit") => Confirmed
    /\ (reqs # <<>> /\ Last(reqs) = "tts") => ~estimatePrinted /\ ~asked
    /\ (script = "avatar" /\ args.text /\ estimatePrinted) => Issued("tts")
    /\ script = "kling" => ~estimatePrinted /\ ~asked

\* A --text run: the TTS request went out, the user was asked and agreed,
\* and the job was submitted.
C5_Witness ==
    /\ script = "avatar" /\ args.text
    /\ reqs # <<>> /\ Head(reqs) = "tts"
    /\ asked /\ IsYes(answer)
    /\ Issued("fal_submit")

\* ---------------------------------------------------------------------- C6
\* C6: a SIGINT that arrives after the job was submitted and before
\* subscribe returns issues a cancel request for the job, ends the process
\* with status 1, and the result is never downloaded.
C6_InterruptCancels ==
    sigintInFlight =>
        /\ Issued("fal_cancel")
        /\ exitStatus = 1
        /\ ~Issued("download")
        /\ ~outputWritten

\* ---------------------------------------------------------------------- C7
\* The position of request r in the order `order`.
Pos(r, order) == CHOOSE i \in 1..Len(order) : order[i] = r
InOrder(order) ==
    /\ \A i \in DOMAIN reqs : \E k \in 1..Len(order) : order[k] = reqs[i]
    /\ \A i, j \in DOMAIN reqs :
          i < j => Pos(reqs[i], order) < Pos(reqs[j], order)
KlingOrder ==
    <<"upload_image", "i2v_post", "upload_audio", "lip_post", "download">>
AvatarOrder ==
    <<"tts", "upload_image", "upload_audio", "fal_submit", "fal_cancel",
      "download">>

PipelineOrder ==
    /\ script = "kling" => InOrder(KlingOrder)
    /\ script = "avatar" => InOrder(AvatarOrder)
    /\ (Issued("upload_audio") /\ script = "kling") => taskFinal["i2v"] = "succeed"
    /\ Issued("lip_post") => taskFinal["i2v"] = "succeed"
    /\ (script = "kling" /\ (Issued("download") \/ outputWritten)) =>
          taskFinal["lip"] = "succeed"
    /\ (script = "avatar" /\ (Issued("download") \/ outputWritten)) =>
          subscribeReturned
    /\ outputWritten => Issued("download")
    /\ failure => ~outputWritten /\ exitStatus = 1

\* C7: each pipeline runs upload, submit, poll, download in that order and a
\* step starts only if the one before succeeded: lip-sync is submitted only
\* after image2video was polled to "succeed", the output is written only
\* after lip-sync was polled to "succeed" (kling_lipsync.py) or after
\* subscribe returned (avatar.py); every status GET follows its task's POST;
\* and once a task failed, timed out or a request errored, no request is
\* made and no output file is written.
C7_PipelineInOrder ==
    /\ []PipelineOrder
    /\ [][(script = "kling" /\ gets' > gets) =>
            /\ reqs # <<>>
            /\ Last(reqs) = (IF pollCaller = "i2v" THEN "i2v_post" ELSE "lip_post")
            /\ reqs' = reqs]_vars
    /\ [][failure =>
            /\ reqs' = reqs
            /\ gets' = gets
            /\ outputWritten' = outputWritten]_vars

\* kling_lipsync.py ran all five requests and wrote the output.
C7_Witness ==
    /\ script = "kling"
    /\ reqs = KlingOrder
    /\ taskFinal["i2v"] = "succeed" /\ taskFinal["lip"] = "succeed"
    /\ outputWritten

\* ---------------------------------------------------------------------- C8
\* C8: whenever --audio is given, with or without --text, avatar.py makes no
\* TTS request and the audio submitted to the job is the --audio one.
C8_AudioSkipsTts ==
    (script = "avatar" /\ args.audio # "none") =>
        /\ ~Issued("tts")
        /\ jobAudio \in {"none", "arg"}

\* ---------------------------------------------------------------------- C9
\* C9: when avatar.py has ended, on any exit path, neither main's temporary
\* MP3 nor upload_to_fal's temporary copy exists.
C9_NoTempFileLeft ==
    (script = "avatar" /\ ~Running) => ~tmpAudioExists /\ ~uploadTmpExists

\* --------------------------------------------------------------------- C10
\* A credential the chosen run needs is unset or empty.
MissingCredential ==
    \/ script = "avatar" /\ (~env.fal \/ (args.text /\ ~env.eleven))
    \/ script = "clone" /\ ~env.eleven
    \/ script = "kling" /\ (~env.access \/ ~env.secret)

\* C10: with a needed credential missing the script issues no request at
\* all and ends with status 1.
C10_CredentialsFirst ==
    MissingCredential =>
        /\ reqs = <<>>
        /\ gets = 0
        /\ ~Running => exitStatus = 1

=============================================================================
